---------------------------- MODULE Spec2Model ----------------------------
(***************************************************************************)
(* Gymnastics score tracker: accounts and their approval workflow,         *)
(* competitions, sessions, rosters and scores, as the Express handlers of   *)
(* server/routes.ts drive the storage layer (DatabaseStorage).              *)
(*                                                                         *)
(* Rows are records, tables are sets of rows, serial primary keys are      *)
(* counters.  SQL NULL is the string NULL, a field missing from a request   *)
(* body (JavaScript undefined) is the string ABSENT.                        *)
(***************************************************************************)
EXTENDS Integers, Sequences, FiniteSets, TLC

VARIABLES
    users,            \* table users: set of rows
    nextUserId,       \* serial of users.id
    inflight,         \* approval requests between their lookup and their write
    events,           \* table events: sequence of rows, id = position
    eventSessions,    \* table event_sessions: sequence of rows, id = position
    gymnasts,         \* table gymnasts: sequence of rows, id = position
    sessionGymnasts,  \* table session_gymnasts: sequence of rows, id = position
    scores,           \* table scores: sequence of rows, id = position
    last              \* the request handled last and the response it got

accountVars == <<users, nextUserId, inflight>>
rosterVars == <<events, eventSessions, gymnasts, sessionGymnasts>>
vars == <<users, nextUserId, inflight, events, eventSessions, gymnasts,
          sessionGymnasts, scores, last>>

(***************************************************************************)
(* Bounds                                                                  *)
(***************************************************************************)
MaxUserId == 3          \* serial ids handed out to accounts
MaxInflight == 2        \* approval requests between lookup and mutation
MaxEvents == 1          \* competitions created
MaxSessions == 1        \* sessions created
MaxGymnasts == 2        \* participant records created
MaxAttachments == 2     \* session attachments created
MaxRoster == 2          \* entries in one roster submission
MaxScores == 2          \* score entries created

(***************************************************************************)
(* Values                                                                  *)
(***************************************************************************)
NULL == "NULL"
ABSENT == "ABSENT"

Roles == {"observer", "judge", "club", "gymnast", "admin"}

\* the club names a registration form can carry: equal up to case or
\* surrounding whitespace, never equal as strings
ClubNames == {"Acme", "acme", "Acme "}

\* identities that can authenticate and register
Usernames == {"jane", "acme"}

\* profile names the identity provider asserts for a username
ClaimFirstName(u) == IF u = "admin" THEN "Site" ELSE "Jane"
ClaimLastName(u) == IF u = "admin" THEN "Admin" ELSE "Doe"

NoUser == [id |-> 0]        \* undefined: no row / no authenticated session
Idle == [busy |-> FALSE]    \* a free request slot

(***************************************************************************)
(* Storage: users                                                          *)
(***************************************************************************)
getUser(id) ==
    IF \E u \in users : u.id = id
    THEN CHOOSE u \in users : u.id = id
    ELSE NoUser

getUserByUsername(name) ==
    IF \E u \in users : u.username = name
    THEN CHOOSE u \in users : u.username = name
    ELSE NoUser

\* a column written by UPDATE ... SET: an undefined value leaves it alone
SetColumn(old, new) == IF new = ABSENT THEN old ELSE new

\* a column written by INSERT: an undefined value takes the column default
InsertColumn(new, default) == IF new = ABSENT THEN default ELSE new

\* the users table after upsertUser(userData)
upsertUser(userData) ==
    LET old == getUserByUsername(userData.username) IN
    IF old # NoUser
    THEN (users \ {old}) \cup
         {[ old EXCEPT
              !.firstName = SetColumn(@, userData.firstName),
              !.lastName = SetColumn(@, userData.lastName),
              !.role = SetColumn(@, userData.role),
              !.isApproved = userData.isApproved,
              !.clubName = SetColumn(@, userData.clubName),
              !.clubAffiliation = SetColumn(@, userData.clubAffiliation) ]}
    ELSE users \cup
         {[ id |-> nextUserId,
            username |-> userData.username,
            firstName |-> InsertColumn(userData.firstName, NULL),
            lastName |-> InsertColumn(userData.lastName, NULL),
            role |-> InsertColumn(userData.role, "observer"),
            isApproved |-> userData.isApproved,
            clubName |-> InsertColumn(userData.clubName, NULL),
            clubAffiliation |-> InsertColumn(userData.clubAffiliation, NULL) ]}

\* updateUserRole writing its default isApproved = false
updateUserRoleDefault(id, role, isApproved) ==
    {IF u.id = id THEN [u EXCEPT !.role = role, !.isApproved = FALSE] ELSE u
       : u \in users}

\* the users table after updateUserRole(id, role, isApproved)
updateUserRole(id, role, isApproved) ==
    {IF u.id = id THEN [u EXCEPT !.role = role, !.isApproved = isApproved] ELSE u
       : u \in users}

\* the users table after deleteUser(id)
deleteUser(id) == {u \in users : u.id # id}

\* requireAuth: only a request with an authenticated session reaches the handler
requireAuth(caller) == caller # NoUser

\* who can send a request: any stored account, or nobody authenticated
Callers == users \cup {NoUser}

(***************************************************************************)
(* POST /api/users/register                                                *)
(***************************************************************************)
Register(sub, body) ==
    LET userData ==
          [ username |-> sub,
            firstName |-> ClaimFirstName(sub),
            lastName |-> ClaimLastName(sub),
            role |-> body.role,
            isApproved |-> (body.role = "observer"),
            clubName |-> body.clubName,
            clubAffiliation |-> body.clubAffiliation ]
        isNew == getUserByUsername(sub) = NoUser
    IN  /\ isNew => nextUserId <= MaxUserId
        /\ users' = upsertUser(userData)
        /\ nextUserId' = IF isNew THEN nextUserId + 1 ELSE nextUserId
        /\ last' = [ op |-> "register", status |-> 200, username |-> sub,
                     role |-> body.role, reqApproved |-> body.isApproved ]
        /\ UNCHANGED <<inflight, rosterVars, scores>>

\* request bodies as any client can send them: the handler validates nothing
RegisterBodies ==
    [ role : Roles \cup {ABSENT},
      isApproved : BOOLEAN,
      clubName : {"Acme", ABSENT},
      clubAffiliation : {"acme", ABSENT} ]

\* request bodies as the registration page builds them, one per account type
RegisterForm(role, club) ==
    [ role |-> role, isApproved |-> FALSE,
      clubName |-> IF role = "club" THEN club ELSE ABSENT,
      clubAffiliation |-> IF role = "gymnast" THEN club ELSE ABSENT ]

\* the registrations the approval workflow is exercised with: jane signs up
\* as observer, judge or gymnast of some club, acme signs up as the club
RegisterForms(sub) ==
    IF sub = "acme"
    THEN {RegisterForm("club", "Acme")}
    ELSE {RegisterForm(r, ABSENT) : r \in {"observer", "judge"}}
         \cup {RegisterForm("gymnast", c) : c \in ClubNames}

(***************************************************************************)
(* PATCH /api/users/:id/role  (the handler registered first on the path)   *)
(***************************************************************************)
\* the permission check with any club taken for the nominated club
MayApproveAnyClub(currentUser, userToUpdate) ==
    IF userToUpdate.role = "gymnast"
    THEN ~ (currentUser.role # "club")
    ELSE ~ (currentUser.role # "admin")

\* the permission check that lets clubs through for every account type
MayApproveClubOrAdmin(currentUser, userToUpdate) ==
    IF userToUpdate.role = "gymnast"
    THEN ~ (currentUser.role # "club" \/ currentUser.clubName # userToUpdate.clubAffiliation)
    ELSE ~ (currentUser.role # "admin" /\ currentUser.role # "club")

\* the permission check on the looked-up account
MayApprove(currentUser, userToUpdate) ==
    IF userToUpdate.role = "gymnast"
    THEN ~ (currentUser.role # "club" \/ currentUser.clubName # userToUpdate.clubAffiliation)
    ELSE ~ (currentUser.role # "admin")

\* the checks without the guard on a missing account: reading the role of
\* undefined throws, and the catch block answers 500
ApprovalDenialUnguarded(currentUser, userToUpdate) ==
    IF ~ requireAuth(currentUser) THEN 401
    ELSE IF userToUpdate = NoUser THEN 500
    ELSE IF ~ MayApprove(currentUser, userToUpdate) THEN 403
    ELSE 0

\* the status the handler answers with before it mutates anything, 0 if none
ApprovalDenial(currentUser, userToUpdate) ==
    IF ~ requireAuth(currentUser) THEN 401
    ELSE IF userToUpdate = NoUser THEN 404
    ELSE IF ~ MayApprove(currentUser, userToUpdate) THEN 403
    ELSE 0

\* the approve / reject branch with its condition inverted
ApprovalBranchInverted(userToUpdate, isApproved) ==
    IF ~ isApproved
    THEN updateUserRole(userToUpdate.id, userToUpdate.role, TRUE)
    ELSE deleteUser(userToUpdate.id)

\* the users table after the approve / reject branch
ApprovalBranch(userToUpdate, isApproved) ==
    IF isApproved
    THEN updateUserRole(userToUpdate.id, userToUpdate.role, TRUE)
    ELSE deleteUser(userToUpdate.id)

\* the whole handler, run without another request in between
Approval(currentUser, id, isApproved) ==
    LET userToUpdate == getUser(id)
        denial == ApprovalDenial(currentUser, userToUpdate)
    IN  /\ users' = IF denial = 0 THEN ApprovalBranch(userToUpdate, isApproved)
                    ELSE users
        /\ last' = [ op |-> "approval", phase |-> "whole",
                     status |-> IF denial = 0 THEN 200 ELSE denial,
                     caller |-> currentUser, id |-> id,
                     userToUpdate |-> userToUpdate, isApproved |-> isApproved,
                     found |-> (userToUpdate # NoUser),
                     effect |-> (users' # users) ]
        /\ UNCHANGED <<nextUserId, inflight, rosterVars, scores>>

FreeSlot ==
    CHOOSE s \in 1..MaxInflight :
        inflight[s] = Idle /\ \A t \in 1..(s-1) : inflight[t] # Idle

\* the handler up to its first storage write: requireAuth, getUser, 404, 403
ApprovalLookup(currentUser, id, isApproved) ==
    LET userToUpdate == getUser(id)
        denial == ApprovalDenial(currentUser, userToUpdate)
    IN  IF denial # 0
        THEN /\ last' = [ op |-> "approval", phase |-> "lookup", status |-> denial,
                          caller |-> currentUser, id |-> id,
                          userToUpdate |-> userToUpdate, isApproved |-> isApproved,
                          found |-> (userToUpdate # NoUser),
                          effect |-> FALSE ]
             /\ UNCHANGED <<accountVars, rosterVars, scores>>
        ELSE /\ \E s \in 1..MaxInflight : inflight[s] = Idle
             /\ inflight' = [inflight EXCEPT ![FreeSlot] =
                    [ busy |-> TRUE, caller |-> currentUser,
                      userToUpdate |-> userToUpdate, isApproved |-> isApproved ]]
             /\ UNCHANGED <<users, nextUserId, last, rosterVars, scores>>

\* the rest of the handler, after other requests may have run
ApprovalMutate(s) ==
    LET r == inflight[s]
    IN  /\ r # Idle
        /\ users' = ApprovalBranch(r.userToUpdate, r.isApproved)
        /\ inflight' = [inflight EXCEPT ![s] = Idle]
        /\ last' = [ op |-> "approval", phase |-> "mutate", status |-> 200,
                     caller |-> r.caller, id |-> r.userToUpdate.id,
                     userToUpdate |-> r.userToUpdate, isApproved |-> r.isApproved,
                     found |-> (getUser(r.userToUpdate.id) # NoUser),
                     effect |-> (users' # users) ]
        /\ UNCHANGED <<nextUserId, rosterVars, scores>>

(***************************************************************************)
(* Storage: competitions, sessions, participants, attachments              *)
(***************************************************************************)
\* foreign keys of session_gymnasts: session_id -> event_sessions.id,
\* gymnast_id -> gymnasts.id
AttachmentKeysExist(sessionId, gymnastId, gymnastsTable) ==
    /\ sessionId \in 1..Len(eventSessions)
    /\ gymnastId \in 1..Len(gymnastsTable)

\* the rows searchGymnastsByName returns, in the order the scan yields them
searchGymnastsByName(firstName, lastName, scan) ==
    SelectSeq(scan, LAMBDA u : /\ u.firstName = firstName
                               /\ u.lastName = lastName
                               /\ u.role = "gymnast")

\* the orders in which a query without ORDER BY can return the users table
RECURSIVE ScanOrders(_)
ScanOrders(rows) ==
    IF rows = {} THEN {<< >>}
    ELSE UNION {{<<u>> \o rest : rest \in ScanOrders(rows \ {u})} : u \in rows}

(***************************************************************************)
(* POST /api/events, POST /api/sessions, POST /api/gymnasts                *)
(***************************************************************************)
\* the organizer check with judges let through
MayOrganizeOrJudge(currentUser) ==
    ~ (currentUser.role # "admin" /\ currentUser.role # "club" /\ currentUser.role # "judge")

MayOrganize(currentUser) == ~ (currentUser.role # "admin" /\ currentUser.role # "club")

EventBodies == {[name |-> "Open"], [name |-> ABSENT]}

CreateEvent(currentUser, body) ==
    LET status == IF ~ requireAuth(currentUser) THEN 401
                  ELSE IF ~ MayOrganize(currentUser) THEN 403
                  ELSE IF body.name = ABSENT THEN 400
                  ELSE 201
    IN  /\ status = 201 => Len(events) < MaxEvents
        /\ events' = IF status = 201
                     THEN Append(events, [name |-> body.name, createdBy |-> currentUser.id])
                     ELSE events
        /\ last' = [ op |-> "createEvent", status |-> status, caller |-> currentUser,
                     effect |-> (events' # events) ]
        /\ UNCHANGED <<accountVars, eventSessions, gymnasts, sessionGymnasts, scores>>

SessionBodies == [eventId : 1..MaxEvents, name : {"Morning", ABSENT}]

CreateSession(currentUser, body) ==
    LET status == IF ~ requireAuth(currentUser) THEN 401
                  ELSE IF ~ MayOrganize(currentUser) THEN 403
                  ELSE IF body.name = ABSENT THEN 400
                  ELSE IF body.eventId \notin 1..Len(events) THEN 500
                  ELSE 201
    IN  /\ status = 201 => Len(eventSessions) < MaxSessions
        /\ eventSessions' = IF status = 201
                            THEN Append(eventSessions, [eventId |-> body.eventId, name |-> body.name])
                            ELSE eventSessions
        /\ last' = [ op |-> "createSession", status |-> status, caller |-> currentUser,
                     effect |-> (eventSessions' # eventSessions) ]
        /\ UNCHANGED <<accountVars, events, gymnasts, sessionGymnasts, scores>>

\* one line of a roster, or the body of POST /api/gymnasts
RosterEntry(firstName, lastName, level) ==
    [firstName |-> firstName, lastName |-> lastName, clubName |-> "Acme", level |-> level]

\* Jane Doe is the name of two gymnast accounts, jane doe of none, and Judy Poe
\* of a judge account only
RosterEntries ==
    { RosterEntry("Jane", "Doe", "L3"),
      RosterEntry("jane", "doe", ABSENT),
      RosterEntry("Judy", "Poe", "L3") }

CreateGymnast(currentUser, body) ==
    LET status == IF ~ requireAuth(currentUser) THEN 401
                  ELSE IF ~ MayOrganize(currentUser) THEN 403
                  ELSE IF body.level = ABSENT THEN 400
                  ELSE 201
    IN  /\ status = 201 => Len(gymnasts) < MaxGymnasts
        /\ gymnasts' = IF status = 201
                       THEN Append(gymnasts,
                              [ userId |-> currentUser.id, firstName |-> body.firstName,
                                lastName |-> body.lastName, clubName |-> body.clubName,
                                level |-> body.level, isApproved |-> FALSE ])
                       ELSE gymnasts
        /\ last' = [ op |-> "createGymnast", status |-> status, caller |-> currentUser,
                     effect |-> (gymnasts' # gymnasts) ]
        /\ UNCHANGED <<accountVars, events, eventSessions, sessionGymnasts, scores>>

(***************************************************************************)
(* POST /api/sessions/:sessionId/gymnasts                                  *)
(***************************************************************************)
\* the loop body creating its competition-only record without approving it
ResolveEntryUnapproved(gymnast, sessionId, scan, acc) ==
    LET matchingUsers == searchGymnastsByName(gymnast.firstName, gymnast.lastName, scan)
    IN  IF Len(matchingUsers) > 0
        THEN LET existingGymnast == matchingUsers[1]
             IN  IF ~ AttachmentKeysExist(sessionId, existingGymnast.id, acc.gymnasts)
                 THEN [acc EXCEPT !.thrown = TRUE]
                 ELSE [acc EXCEPT
                         !.sessionGymnasts = Append(@, [ sessionId |-> sessionId,
                                                         gymnastId |-> existingGymnast.id ]),
                         !.results = Append(@, [ firstName |-> gymnast.firstName,
                                                 lastName |-> gymnast.lastName,
                                                 clubName |-> gymnast.clubName,
                                                 level |-> gymnast.level,
                                                 matched |-> TRUE,
                                                 gymnastId |-> existingGymnast.id,
                                                 username |-> existingGymnast.username ])]
        ELSE LET newGymnast ==
                   [ userId |-> NoUser.id, firstName |-> gymnast.firstName,
                     lastName |-> gymnast.lastName, clubName |-> gymnast.clubName,
                     level |-> IF gymnast.level = ABSENT THEN "Unknown" ELSE gymnast.level,
                     isApproved |-> FALSE ]
                 created == Append(acc.gymnasts, newGymnast)
                 newId == Len(created)
             IN  IF ~ AttachmentKeysExist(sessionId, newId, created)
                 THEN [acc EXCEPT !.gymnasts = created, !.thrown = TRUE]
                 ELSE [acc EXCEPT
                         !.gymnasts = created,
                         !.sessionGymnasts = Append(@, [ sessionId |-> sessionId,
                                                         gymnastId |-> newId ]),
                         !.results = Append(@, [ firstName |-> gymnast.firstName,
                                                 lastName |-> gymnast.lastName,
                                                 clubName |-> gymnast.clubName,
                                                 level |-> gymnast.level,
                                                 matched |-> FALSE,
                                                 gymnastId |-> newId,
                                                 username |-> NULL ])]

\* the body of the for loop: one entry, on the tables as the loop left them;
\* acc.thrown is set when a storage call throws, which leaves the loop
ResolveEntry(gymnast, sessionId, scan, acc) ==
    LET matchingUsers == searchGymnastsByName(gymnast.firstName, gymnast.lastName, scan)
    IN  IF Len(matchingUsers) > 0
        THEN LET existingGymnast == matchingUsers[1]
             IN  IF ~ AttachmentKeysExist(sessionId, existingGymnast.id, acc.gymnasts)
                 THEN [acc EXCEPT !.thrown = TRUE]
                 ELSE [acc EXCEPT
                         !.sessionGymnasts = Append(@, [ sessionId |-> sessionId,
                                                         gymnastId |-> existingGymnast.id ]),
                         !.results = Append(@, [ firstName |-> gymnast.firstName,
                                                 lastName |-> gymnast.lastName,
                                                 clubName |-> gymnast.clubName,
                                                 level |-> gymnast.level,
                                                 matched |-> TRUE,
                                                 gymnastId |-> existingGymnast.id,
                                                 username |-> existingGymnast.username ])]
        ELSE LET newGymnast ==
                   [ userId |-> NoUser.id, firstName |-> gymnast.firstName,
                     lastName |-> gymnast.lastName, clubName |-> gymnast.clubName,
                     level |-> IF gymnast.level = ABSENT THEN "Unknown" ELSE gymnast.level,
                     isApproved |-> TRUE ]
                 created == Append(acc.gymnasts, newGymnast)
                 newId == Len(created)
             IN  IF ~ AttachmentKeysExist(sessionId, newId, created)
                 THEN [acc EXCEPT !.gymnasts = created, !.thrown = TRUE]
                 ELSE [acc EXCEPT
                         !.gymnasts = created,
                         !.sessionGymnasts = Append(@, [ sessionId |-> sessionId,
                                                         gymnastId |-> newId ]),
                         !.results = Append(@, [ firstName |-> gymnast.firstName,
                                                 lastName |-> gymnast.lastName,
                                                 clubName |-> gymnast.clubName,
                                                 level |-> gymnast.level,
                                                 matched |-> FALSE,
                                                 gymnastId |-> newId,
                                                 username |-> NULL ])]

RECURSIVE ResolveRoster(_, _, _, _)
ResolveRoster(entries, sessionId, scan, acc) ==
    IF entries = << >> \/ acc.thrown THEN acc
    ELSE ResolveRoster(Tail(entries), sessionId, scan,
                       ResolveEntry(Head(entries), sessionId, scan, acc))

Rosters == UNION {[1..n -> RosterEntries] : n \in 1..MaxRoster}

SubmitRoster(currentUser, sessionId, entries, scan) ==
    LET allowed == requireAuth(currentUser) /\ MayOrganize(currentUser)
        done == ResolveRoster(entries, sessionId, scan,
                              [ gymnasts |-> gymnasts, sessionGymnasts |-> sessionGymnasts,
                                results |-> << >>, thrown |-> FALSE ])
        status == IF ~ requireAuth(currentUser) THEN 401
                  ELSE IF ~ MayOrganize(currentUser) THEN 403
                  ELSE IF done.thrown THEN 500
                  ELSE 200
    IN  /\ allowed => Len(done.gymnasts) <= MaxGymnasts
        /\ allowed => Len(done.sessionGymnasts) <= MaxAttachments
        /\ gymnasts' = IF allowed THEN done.gymnasts ELSE gymnasts
        /\ sessionGymnasts' = IF allowed THEN done.sessionGymnasts ELSE sessionGymnasts
        /\ last' = [ op |-> "roster", status |-> status, caller |-> currentUser,
                     sessionId |-> sessionId, n |-> Len(entries),
                     results |-> IF status = 200 THEN done.results ELSE << >>,
                     effect |-> (gymnasts' # gymnasts \/ sessionGymnasts' # sessionGymnasts) ]
        /\ UNCHANGED <<accountVars, events, eventSessions, scores>>

(***************************************************************************)
(* POST /api/scores, PATCH /api/scores/:id                                 *)
(***************************************************************************)
\* decimal(precision, scale) columns of the scores table; a score value is an
\* integer number of units of 10^-DecimalScale
DecimalPrecision == 4
DecimalScale == 3

RECURSIVE Pow10(_)
Pow10(n) == IF n = 0 THEN 1 ELSE 10 * Pow10(n - 1)

\* a decimal in a body or a row: <<v>>, or None when undefined / NULL
None == << >>
Dec(v) == <<v>>

\* the column holds the value: at most precision digits in all
FitsDecimal(d) ==
    d = None \/ (d[1] > - Pow10(DecimalPrecision) /\ d[1] < Pow10(DecimalPrecision))

\* a decimal column written by INSERT, by UPDATE ... SET
InsertDecimal(new, default) == IF new = None THEN default ELSE new
SetDecimal(old, new) == IF new = None THEN old ELSE new

\* rows seeded by initializeApparatus
SeededApparatus == 8

\* the role check without the approval check
MayScoreAnyJudge(currentUser) ==
    ~ (currentUser.role # "admin" /\ currentUser.role # "judge")

MayScore(currentUser) ==
    /\ ~ (currentUser.role # "admin" /\ currentUser.role # "judge")
    /\ ~ (currentUser.role = "judge" /\ ~ currentUser.isApproved)

\* foreign keys of scores: session_id, gymnast_id, apparatus_id, judge_id
ScoreKeysExist(row) ==
    /\ row.sessionId \in 1..Len(eventSessions)
    /\ row.gymnastId \in 1..Len(gymnasts)
    /\ row.apparatusId \in 1..SeededApparatus
    /\ getUser(row.judgeId) # NoUser

ScoreFits(row) ==
    /\ FitsDecimal(row.difficultyScore)
    /\ FitsDecimal(row.executionScore)
    /\ FitsDecimal(row.deductions)
    /\ FitsDecimal(row.finalScore)

\* the four numbers of a score sheet, as a request body carries them
ScoreSheet(difficulty, execution, deductions, final) ==
    [ difficultyScore |-> difficulty, executionScore |-> execution,
      deductions |-> deductions, finalScore |-> final ]

\* bodies any client can send: a full sheet, a sheet of zeros, a sheet whose
\* final has five digits, a sheet with a negative difficulty, a body that
\* carries a deduction only, an empty body
ScoreSheets ==
    { ScoreSheet(Dec(5000), Dec(4000), Dec(1000), Dec(8000)),
      ScoreSheet(Dec(0), Dec(0), None, Dec(0)),
      ScoreSheet(Dec(5000), Dec(8500), Dec(1000), Dec(12500)),
      ScoreSheet(Dec(-1000), Dec(4000), Dec(0), Dec(3000)),
      ScoreSheet(None, None, Dec(2000), None),
      ScoreSheet(None, None, None, None) }

ScoreBodies ==
    { [ sessionId |-> 1, gymnastId |-> g, apparatusId |-> 1, sheet |-> sh ]
        : g \in 1..3, sh \in ScoreSheets }

CreateScore(currentUser, body) ==
    LET scoreData ==
          [ sessionId |-> body.sessionId, gymnastId |-> body.gymnastId,
            apparatusId |-> body.apparatusId, judgeId |-> currentUser.id,
            difficultyScore |-> InsertDecimal(body.sheet.difficultyScore, None),
            executionScore |-> InsertDecimal(body.sheet.executionScore, None),
            deductions |-> InsertDecimal(body.sheet.deductions, Dec(0)),
            finalScore |-> body.sheet.finalScore ]
        status == IF ~ requireAuth(currentUser) THEN 401
                  ELSE IF ~ MayScore(currentUser) THEN 403
                  ELSE IF body.sheet.finalScore = None THEN 400
                  ELSE IF ~ ScoreKeysExist(scoreData) \/ ~ ScoreFits(scoreData) THEN 500
                  ELSE 201
    IN  /\ status = 201 => Len(scores) < MaxScores
        /\ scores' = IF status = 201 THEN Append(scores, scoreData) ELSE scores
        /\ last' = [ op |-> "createScore", status |-> status, caller |-> currentUser,
                     effect |-> (scores' # scores) ]
        /\ UNCHANGED <<accountVars, rosterVars>>

UpdateScore(currentUser, id, sheet) ==
    LET old == scores[id]
        new == [ old EXCEPT
                   !.difficultyScore = SetDecimal(@, sheet.difficultyScore),
                   !.executionScore = SetDecimal(@, sheet.executionScore),
                   !.deductions = SetDecimal(@, sheet.deductions),
                   !.finalScore = SetDecimal(@, sheet.finalScore) ]
        status == IF ~ requireAuth(currentUser) THEN 401
                  ELSE IF ~ MayScore(currentUser) THEN 403
                  ELSE IF id \notin 1..Len(scores) THEN 200
                  ELSE IF ~ ScoreFits(new) THEN 500
                  ELSE 200
    IN  /\ scores' = IF status = 200 /\ id \in 1..Len(scores)
                     THEN [scores EXCEPT ![id] = new]
                     ELSE scores
        /\ last' = [ op |-> "updateScore", status |-> status, caller |-> currentUser,
                     id |-> id, effect |-> (scores' # scores) ]
        /\ UNCHANGED <<accountVars, rosterVars>>

(***************************************************************************)
(* Storage reads: the gymnasts of a session, the scores of a session       *)
(***************************************************************************)
\* ORDER BY on two columns: a key is a pair, compared column by column
KeyLeq(a, b) == a[1] < b[1] \/ (a[1] = b[1] /\ a[2] <= b[2])

\* the rows of seq in ascending order of key[row]; rows with equal keys stay
\* in the order in which the scan produced them
RECURSIVE InsertByKey(_, _, _)
InsertByKey(x, sorted, key) ==
    IF sorted = << >> THEN <<x>>
    ELSE IF KeyLeq(key[Head(sorted)], key[x])
         THEN <<Head(sorted)>> \o InsertByKey(x, Tail(sorted), key)
         ELSE <<x>> \o sorted

RECURSIVE OrderBy(_, _)
OrderBy(seq, key) ==
    IF seq = << >> THEN << >>
    ELSE InsertByKey(seq[Len(seq)], OrderBy(SubSeq(seq, 1, Len(seq) - 1), key), key)

\* the database's ordering of the names that occur: position in this list
Collation == <<"Amy", "Ash", "Zed", "Zoe">>
Collate(name) == CHOOSE i \in 1..Len(Collation) : Collation[i] = name

\* getGymnastsBySession: gymnasts joined with the session's attachments, ordered
\* by last name, then first name; the result as a sequence of gymnasts.id
getGymnastsBySession(sessionId, scan) ==
    LET attached == SelectSeq(scan, LAMBDA a : sessionGymnasts[a].sessionId = sessionId)
        joined == [i \in 1..Len(attached) |-> sessionGymnasts[attached[i]].gymnastId]
        key == [g \in 1..Len(gymnasts) |->
                  <<Collate(gymnasts[g].lastName), Collate(gymnasts[g].firstName)>>]
    IN  OrderBy(joined, key)

\* getScoresBySession: the session's scores ordered by gymnast, then
\* apparatus; the result as a sequence of scores.id
getScoresBySession(sessionId, scan) ==
    LET rows == SelectSeq(scan, LAMBDA i : scores[i].sessionId = sessionId)
        key == [i \in 1..Len(scores) |-> <<scores[i].gymnastId, scores[i].apparatusId>>]
    IN  OrderBy(rows, key)

\* getScore: the first row the query yields for the tuple, 0 when undefined
getScore(sessionId, gymnastId, apparatusId, scan) ==
    LET rows == SelectSeq(scan, LAMBDA i : /\ scores[i].sessionId = sessionId
                                          /\ scores[i].gymnastId = gymnastId
                                          /\ scores[i].apparatusId = apparatusId)
    IN  IF rows = << >> THEN 0 ELSE rows[1]

\* GET /api/sessions/:sessionId/scores: the route has no requireAuth, so the
\* handler runs for a request without a session as well
GetSessionScores(currentUser, sessionId, scan) ==
    /\ last' = [ op |-> "getScores", status |-> 200, caller |-> currentUser,
                 sessionId |-> sessionId,
                 rows |-> getScoresBySession(sessionId, scan) ]
    /\ UNCHANGED <<accountVars, rosterVars, scores>>

\* a call of storage.getScore
ReadScore(sessionId, gymnastId, apparatusId, scan) ==
    /\ last' = [ op |-> "getScore", status |-> 200, sessionId |-> sessionId,
                 gymnastId |-> gymnastId, apparatusId |-> apparatusId,
                 scoreId |-> getScore(sessionId, gymnastId, apparatusId, scan) ]
    /\ UNCHANGED <<accountVars, rosterVars, scores>>

(***************************************************************************)
(* Storage: getGymnastStats; GET /api/gymnasts/:id/stats                    *)
(***************************************************************************)
\* the rows of the stats query: scores joined with session_gymnasts on the
\* gymnast id alone, one row <<score, attachment>> per pair; the joins with
\* event_sessions, events and apparatus follow the attachment's session and
\* the score's apparatus, and lose no row because of the foreign keys
StatsRows(gymnastId) ==
    { r \in (1..Len(scores)) \X (1..Len(sessionGymnasts)) :
        /\ scores[r[1]].gymnastId = gymnastId
        /\ sessionGymnasts[r[2]].gymnastId = scores[r[1]].gymnastId }

\* the selected columns of a row: total, eventName, apparatus
RowTotal(r) == scores[r[1]].finalScore[1]
RowEventName(r) == events[eventSessions[sessionGymnasts[r[2]].sessionId].eventId].name
RowApparatus(r) == scores[r[1]].apparatusId

\* reduce((sum, score) => sum + score, 0) over the totals of a set of rows
RECURSIVE SumTotals(_)
SumTotals(rows) ==
    IF rows = {} THEN 0
    ELSE LET r == CHOOSE x \in rows : TRUE
         IN  RowTotal(r) + SumTotals(rows \ {r})

\* Math.max(...totals): None stands for -Infinity, the maximum of nothing
MaxTotal(rows) ==
    IF rows = {} THEN None
    ELSE Dec(RowTotal(CHOOSE r \in rows : \A x \in rows : RowTotal(x) <= RowTotal(r)))

\* null, the result for a query without rows
NoStats == [history |-> FALSE]

\* an average is kept as the sum and the divisor: sum / 0 is NaN
getGymnastStats(gymnastId) ==
    LET scoresData == StatsRows(gymnastId)
        allScores == {r \in scoresData : RowTotal(r) > 0}
    IN  IF scoresData = {} THEN NoStats
        ELSE [ history |-> TRUE,
               totalCompetitions |-> Cardinality({RowEventName(r) : r \in scoresData}),
               bestScore |-> MaxTotal(allScores),
               averageScore |-> [ sum |-> SumTotals(allScores),
                                  by |-> Cardinality(allScores) ],
               apparatusStats |->
                   { LET counted == {r \in allScores : RowApparatus(r) = ap}
                     IN  [ apparatus |-> ap,
                           count |-> Cardinality(counted),
                           average |-> [ sum |-> SumTotals(counted),
                                         by |-> Cardinality(counted) ],
                           best |-> MaxTotal(counted) ]
                     : ap \in {RowApparatus(r) : r \in scoresData} } ]

GetStats(currentUser, id) ==
    LET status == IF ~ requireAuth(currentUser) THEN 401
                  ELSE IF currentUser.id # id /\ currentUser.role # "admin" THEN 403
                  ELSE 200
    IN  /\ last' = [ op |-> "stats", status |-> status, caller |-> currentUser,
                     id |-> id,
                     stats |-> IF status = 200 THEN getGymnastStats(id) ELSE NoStats ]
        /\ UNCHANGED <<accountVars, rosterVars, scores>>

(***************************************************************************)
(* The score entry page: its gymnast list                                  *)
(***************************************************************************)
\* getGymnastScore: scores.find over the fetched list, 0 when undefined
getGymnastScore(fetched, gymnastId, apparatusId) ==
    LET rows == SelectSeq(fetched, LAMBDA i : /\ scores[i].gymnastId = gymnastId
                                             /\ scores[i].apparatusId = apparatusId)
    IN  IF rows = << >> THEN 0 ELSE rows[1]

\* the gymnast list of the selected apparatus: gymnasts.map over the fetched
\* gymnasts, each with the score getGymnastScore finds
ViewScores(sessionId, apparatusId, gymnastScan, scoreScan) ==
    LET listed == getGymnastsBySession(sessionId, gymnastScan)
        fetched == getScoresBySession(sessionId, scoreScan)
    IN  /\ last' = [ op |-> "viewScores", status |-> 200, sessionId |-> sessionId,
                     apparatusId |-> apparatusId,
                     rows |-> [ i \in 1..Len(listed) |->
                                 [ gymnastId |-> listed[i],
                                   scoreId |-> getGymnastScore(fetched, listed[i],
                                                               apparatusId) ] ] ]
        /\ UNCHANGED <<accountVars, rosterVars, scores>>

(***************************************************************************)
(* The score entry page: its form, its final score, its submission         *)
(***************************************************************************)
\* scoreSchema: difficulty and execution parse to a number in [0, 10],
\* deductions, when given, to a number that is not negative
FormValid(form) ==
    /\ form.difficultyScore # None
    /\ form.difficultyScore[1] >= 0 /\ form.difficultyScore[1] <= 10 * Pow10(DecimalScale)
    /\ form.executionScore # None
    /\ form.executionScore[1] >= 0 /\ form.executionScore[1] <= 10 * Pow10(DecimalScale)
    /\ form.deductions = None \/ form.deductions[1] >= 0

\* Number.prototype.toFixed(1) of a value that is not negative: the nearest
\* multiple of 0.1, the larger one of two equally near
ToFixed1(v) == ((v + 50) \div 100) * 100

\* Math.max(0, calculated)
Max0(v) == IF v < 0 THEN 0 ELSE v

\* parseFloat(field || "0")
ParseOrZero(d) == IF d = None THEN 0 ELSE d[1]

\* the finalScore state the effect keeps next to the form
FinalScore(form) ==
    ToFixed1(Max0(ParseOrZero(form.difficultyScore) + ParseOrZero(form.executionScore)
                    - ParseOrZero(form.deductions)))

\* form values, in thousandths; all are multiples of 0.25, which binary
\* floating point adds and subtracts exactly
ScoreForms ==
    [ difficultyScore : {Dec(0), Dec(5250), Dec(10000), Dec(10500)},
      executionScore : {Dec(0), Dec(4000)},
      deductions : {None, Dec(1000)} ]

\* onSubmit: a form that fails scoreSchema sends nothing; a valid one posts
\* its fields with the finalScore state and deductions || "0"
SubmitScoreForm(currentUser, gymnastId, apparatusId, form) ==
    IF ~ FormValid(form)
    THEN /\ last' = [ op |-> "scoreForm", status |-> 0, caller |-> currentUser,
                      effect |-> FALSE ]
         /\ UNCHANGED <<accountVars, rosterVars, scores>>
    ELSE CreateScore(currentUser,
                     [ sessionId |-> 1, gymnastId |-> gymnastId,
                       apparatusId |-> apparatusId,
                       sheet |-> ScoreSheet(form.difficultyScore, form.executionScore,
                                            Dec(ParseOrZero(form.deductions)),
                                            Dec(FinalScore(form))) ])

(***************************************************************************)
(* Specifications                                                          *)
(***************************************************************************)
AdminAccount ==
    [ id |-> 1, username |-> "admin", firstName |-> "Site", lastName |-> "Admin",
      role |-> "admin", isApproved |-> TRUE, clubName |-> NULL,
      clubAffiliation |-> NULL ]

Booted == [ op |-> "boot", status |-> 0 ]

\* the competition tables of a fresh database
NoCompetitions ==
    /\ events = << >>
    /\ eventSessions = << >>
    /\ gymnasts = << >>
    /\ sessionGymnasts = << >>
    /\ scores = << >>

Init ==
    /\ users = {AdminAccount}
    /\ nextUserId = 2
    /\ inflight = [s \in 1..MaxInflight |-> Idle]
    /\ NoCompetitions
    /\ last = Booted

\* registration and approval, one request at a time
DoRegisterForm == \E sub \in Usernames : \E body \in RegisterForms(sub) : Register(sub, body)

DoApproval ==
    \E c \in Callers, id \in 1..MaxUserId, a \in BOOLEAN : Approval(c, id, a)

Next == DoRegisterForm \/ DoApproval

Spec == Init /\ [][Next]_vars

\* registration alone, with arbitrary request bodies
DoRegister == \E sub \in Usernames, body \in RegisterBodies : Register(sub, body)

NextRegister == DoRegister

SpecRegister == Init /\ [][NextRegister]_vars

\* approval requests that interleave between lookup and mutation
PendingJudge ==
    [ id |-> 2, username |-> "jane", firstName |-> "Jane", lastName |-> "Doe",
      role |-> "judge", isApproved |-> FALSE, clubName |-> NULL,
      clubAffiliation |-> NULL ]

InitRace ==
    /\ users = {AdminAccount, PendingJudge}
    /\ nextUserId = 3
    /\ inflight = [s \in 1..MaxInflight |-> Idle]
    /\ NoCompetitions
    /\ last = Booted

DoApprovalLookup ==
    \E c \in Callers, id \in 1..MaxUserId, a \in BOOLEAN : ApprovalLookup(c, id, a)

DoApprovalMutate == \E s \in 1..MaxInflight : ApprovalMutate(s)

NextRace == DoApprovalLookup \/ DoApprovalMutate

SpecRace == InitRace /\ [][NextRace]_vars

\* competitions, sessions and rosters, on a database with accounts of every role
Account(id, username, firstName, lastName, role, isApproved, clubName, clubAffiliation) ==
    [ id |-> id, username |-> username, firstName |-> firstName, lastName |-> lastName,
      role |-> role, isApproved |-> isApproved, clubName |-> clubName,
      clubAffiliation |-> clubAffiliation ]

RegisteredAccounts ==
    { AdminAccount,
      Account(2, "jane", "Jane", "Doe", "gymnast", TRUE, NULL, "Acme"),
      Account(3, "janet", "Jane", "Doe", "gymnast", TRUE, NULL, "Acme"),
      Account(4, "acme", "Ann", "Lee", "club", TRUE, "Acme", NULL),
      Account(5, "judy", "Judy", "Poe", "judge", TRUE, NULL, NULL),
      Account(6, "jude", "Jude", "Poe", "judge", FALSE, NULL, NULL),
      Account(7, "olga", "Olga", "Orr", "observer", TRUE, NULL, NULL) }

InitRoster ==
    /\ users = RegisteredAccounts
    /\ nextUserId = 8
    /\ inflight = [s \in 1..MaxInflight |-> Idle]
    /\ NoCompetitions
    /\ last = Booted

DoCreateEvent == \E c \in Callers, body \in EventBodies : CreateEvent(c, body)

DoCreateSession == \E c \in Callers, body \in SessionBodies : CreateSession(c, body)

DoCreateGymnast == \E c \in Callers, body \in RosterEntries : CreateGymnast(c, body)

DoSubmitRoster ==
    \E c \in Callers, sessionId \in 1..MaxSessions, entries \in Rosters :
        \E scan \in ScanOrders({u \in users : u.role = "gymnast"}) :
            SubmitRoster(c, sessionId, entries, scan)

NextRoster == DoCreateEvent \/ DoCreateSession \/ DoCreateGymnast \/ DoSubmitRoster

SpecRoster == InitRoster /\ [][NextRoster]_vars

\* rosters on a database whose first two accounts are gymnasts of one name
NamesakeAccounts ==
    { Account(1, "jane", "Jane", "Doe", "gymnast", TRUE, NULL, "Acme"),
      Account(2, "janet", "Jane", "Doe", "gymnast", TRUE, NULL, "Acme"),
      Account(3, "acme", "Ann", "Lee", "club", TRUE, "Acme", NULL) }

InitResolve ==
    /\ users = NamesakeAccounts
    /\ nextUserId = 4
    /\ inflight = [s \in 1..MaxInflight |-> Idle]
    /\ NoCompetitions
    /\ last = Booted

NextResolve == DoCreateEvent \/ DoCreateSession \/ DoCreateGymnast \/ DoSubmitRoster

SpecResolve == InitResolve /\ [][NextResolve]_vars

\* score entry, on a database with a competition, a session and two participants
InitScores ==
    /\ users = RegisteredAccounts
    /\ nextUserId = 8
    /\ inflight = [s \in 1..MaxInflight |-> Idle]
    /\ events = << [name |-> "Open", createdBy |-> 4] >>
    /\ eventSessions = << [eventId |-> 1, name |-> "Morning"] >>
    /\ gymnasts = << [ userId |-> NoUser.id, firstName |-> "jane", lastName |-> "doe",
                       clubName |-> "Acme", level |-> "Unknown", isApproved |-> TRUE ],
                     [ userId |-> 4, firstName |-> "Bob", lastName |-> "Roe",
                       clubName |-> "Acme", level |-> "L3", isApproved |-> FALSE ] >>
    /\ sessionGymnasts = << [sessionId |-> 1, gymnastId |-> 1] >>
    /\ scores = << >>
    /\ last = Booted

DoCreateScore == \E c \in Callers, body \in ScoreBodies : CreateScore(c, body)

DoUpdateScore ==
    \E c \in Callers, id \in 1..MaxScores, sheet \in ScoreSheets : UpdateScore(c, id, sheet)

NextScores == DoCreateScore \/ DoUpdateScore

SpecScores == InitScores /\ [][NextScores]_vars

\* the score entry page in the hands of the scorers
DoSubmitScoreForm ==
    \E c \in {u \in users : u.role \in {"admin", "judge"}}, g \in 1..MaxGymnasts,
       form \in ScoreForms :
        SubmitScoreForm(c, g, 1, form)

NextEntry == DoSubmitScoreForm

SpecEntry == InitScores /\ [][NextEntry]_vars

\* scores and their read-back, on a session with two attached participants
InitBoard ==
    /\ users = RegisteredAccounts
    /\ nextUserId = 8
    /\ inflight = [s \in 1..MaxInflight |-> Idle]
    /\ events = << [name |-> "Open", createdBy |-> 4] >>
    /\ eventSessions = << [eventId |-> 1, name |-> "Morning"] >>
    /\ gymnasts = << [ userId |-> NoUser.id, firstName |-> "Amy", lastName |-> "Ash",
                       clubName |-> "Acme", level |-> "L3", isApproved |-> TRUE ],
                     [ userId |-> NoUser.id, firstName |-> "Zoe", lastName |-> "Zed",
                       clubName |-> "Acme", level |-> "L3", isApproved |-> TRUE ] >>
    /\ sessionGymnasts = << [sessionId |-> 1, gymnastId |-> 1],
                            [sessionId |-> 1, gymnastId |-> 2] >>
    /\ scores = << >>
    /\ last = Booted

DoReadScore ==
    \E g \in 1..Len(gymnasts) : \E scan \in ScanOrders(1..Len(scores)) :
        ReadScore(1, g, 1, scan)

DoViewScores ==
    \E gymnastScan \in ScanOrders(1..Len(sessionGymnasts)) :
        \E scoreScan \in ScanOrders(1..Len(scores)) :
            ViewScores(1, 1, gymnastScan, scoreScan)

DoGetSessionScores ==
    \E c \in Callers : \E scan \in ScanOrders(1..Len(scores)) :
        GetSessionScores(c, 1, scan)

NextBoard == DoCreateScore \/ DoReadScore \/ DoViewScores \/ DoGetSessionScores

SpecBoard == InitBoard /\ [][NextBoard]_vars

\* statistics, on two competitions of one session each: participant 1, the
\* record of janet (account 3), is attached to both sessions, participant 2,
\* a record without an account, to the first
InitStats ==
    /\ users = RegisteredAccounts
    /\ nextUserId = 8
    /\ inflight = [s \in 1..MaxInflight |-> Idle]
    /\ events = << [name |-> "Open", createdBy |-> 4], [name |-> "Cup", createdBy |-> 4] >>
    /\ eventSessions = << [eventId |-> 1, name |-> "Morning"],
                          [eventId |-> 2, name |-> "Morning"] >>
    /\ gymnasts = << [ userId |-> 3, firstName |-> "Jane", lastName |-> "Doe",
                       clubName |-> "Acme", level |-> "L3", isApproved |-> TRUE ],
                     [ userId |-> NoUser.id, firstName |-> "Zoe", lastName |-> "Zed",
                       clubName |-> "Acme", level |-> "L3", isApproved |-> TRUE ] >>
    /\ sessionGymnasts = << [sessionId |-> 1, gymnastId |-> 1],
                            [sessionId |-> 2, gymnastId |-> 1],
                            [sessionId |-> 1, gymnastId |-> 2] >>
    /\ scores = << >>
    /\ last = Booted

\* the scores the judges enter in the two sessions: 8.0 or 0.0
StatsScoreBodies ==
    { [ sessionId |-> s, gymnastId |-> g, apparatusId |-> ap, sheet |-> sh ]
        : s \in 1..2, g \in 1..2, ap \in 1..2,
          sh \in { ScoreSheet(Dec(5000), Dec(4000), Dec(1000), Dec(8000)),
                   ScoreSheet(Dec(0), Dec(0), None, Dec(0)) } }

DoCreateStatsScore ==
    \E c \in {u \in users : u.role = "judge"}, body \in StatsScoreBodies :
        CreateScore(c, body)

DoGetStats == \E c \in Callers, id \in 1..2 : GetStats(c, id)

NextStats == DoCreateStatsScore \/ DoGetStats

SpecStats == InitStats /\ [][NextStats]_vars

(***************************************************************************)
(* Properties                                                              *)
(***************************************************************************)
Denied(r) == r.status \in {401, 403} /\ ~ r.effect

\* C1: a score creation or a score edit takes effect only for an admin or an
\* approved judge; every other caller is denied and the scores table is left
\* as it was.
C1_ScoringNeedsAdminOrApprovedJudge ==
    last.op \in {"createScore", "updateScore"} =>
        \/ /\ last.caller # NoUser
           /\ \/ last.caller.role = "admin"
              \/ last.caller.role = "judge" /\ last.caller.isApproved
        \/ Denied(last)

C1_Witness ==
    /\ last.op = "createScore"
    /\ last.effect
    /\ last.caller.role = "judge"
    /\ Len(scores) > 0

\* C2: an approve or reject request on a gymnast account takes effect only
\* for a club whose clubName is the very string in the gymnast's
\* clubAffiliation; every other caller is denied and the account is unchanged.
C2_GymnastApprovalNeedsNominatedClub ==
    (last.op = "approval" /\ last.found /\ last.userToUpdate.role = "gymnast") =>
        \/ /\ last.caller # NoUser
           /\ last.caller.role = "club"
           /\ last.caller.clubName = last.userToUpdate.clubAffiliation
        \/ Denied(last) /\ getUser(last.id) = last.userToUpdate

C2_Witness ==
    /\ last.op = "approval"
    /\ last.status = 200
    /\ last.effect
    /\ last.userToUpdate.role = "gymnast"
    /\ last.caller.role = "club"

\* C3: an approve or reject request on an account that is not a gymnast takes
\* effect only for an admin; every other caller is denied and the account is
\* unchanged.
C3_OtherApprovalNeedsAdmin ==
    (last.op = "approval" /\ last.found /\ last.userToUpdate.role # "gymnast") =>
        \/ last.caller # NoUser /\ last.caller.role = "admin"
        \/ Denied(last) /\ getUser(last.id) = last.userToUpdate

C3_Witness ==
    /\ last.op = "approval"
    /\ last.status = 200
    /\ last.effect
    /\ last.userToUpdate.role = "judge"
    /\ last.caller.role = "admin"

\* C4: creating a competition, creating a session and submitting a roster take
\* effect only for a club or an admin; every other caller is denied and no
\* competition, session, participant or attachment is created.
C4_OrganizingNeedsClubOrAdmin ==
    last.op \in {"createEvent", "createSession", "roster"} =>
        \/ last.caller # NoUser /\ last.caller.role \in {"club", "admin"}
        \/ Denied(last)

C4_Witness ==
    /\ last.op = "roster"
    /\ last.status = 200
    /\ last.effect
    /\ last.caller.role = "club"
    /\ Len(events) > 0
    /\ Len(eventSessions) > 0

\* C5: right after a registration the account is approved if and only if its
\* role is observer, whatever approval value the request carried.
C5_ApprovedIffObserver ==
    last.op = "register" =>
        LET account == getUserByUsername(last.username)
        IN  account.isApproved <=> (account.role = "observer")

Authorized(approver, account) ==
    /\ approver # NoUser
    /\ IF account.role = "gymnast"
       THEN approver.role = "club" /\ approver.clubName = account.clubAffiliation
       ELSE approver.role = "admin"

C8_RejectRemovesThenNotFound ==
    last.op = "approval" =>
        /\ (last.status = 200 /\ ~ last.isApproved) => getUser(last.id) = NoUser
        /\ (~ last.found /\ last.caller # NoUser) => (last.status = 404 /\ ~ last.effect)

\* an approve or reject of an id the serial has handed out and that names no
\* account any more
C8_Witness ==
    /\ last.op = "approval"
    /\ last.status = 404
    /\ last.id < nextUserId
    /\ getUser(last.id) = NoUser

\* C9: a rejection whose write runs after the account was already deleted
\* answers 404.
C9_LateRejectIsNotFound ==
    (/\ last.op = "approval"
     /\ last.phase = "mutate"
     /\ ~ last.isApproved
     /\ ~ last.found) => last.status = 404

\* C10: the participant a matched roster entry attaches is a participant
\* record linked to the matched account.
C10_MatchedEntryAttachesAccountsParticipant ==
    (last.op = "roster" /\ last.status = 200) =>
        \A i \in 1..Len(last.results) :
            last.results[i].matched =>
                /\ last.results[i].gymnastId \in 1..Len(gymnasts)
                /\ gymnasts[last.results[i].gymnastId].userId
                      = getUserByUsername(last.results[i].username).id

\* a roster request the handler accepts: an organizer, an existing session
RosterAccepted(r) ==
    /\ r.op = "roster"
    /\ r.caller # NoUser
    /\ r.caller.role \in {"club", "admin"}
    /\ r.sessionId \in 1..Len(eventSessions)

\* the gymnast accounts that carry exactly these names
Namesakes(firstName, lastName) ==
    {u \in users : u.role = "gymnast" /\ u.firstName = firstName /\ u.lastName = lastName}

\* C11: an accepted roster submission of n entries adds exactly n attachments
\* for its session, the i-th of them naming the participant the i-th entry
\* was resolved to.
C11_EveryEntryAttached ==
    [][RosterAccepted(last') =>
          /\ Len(sessionGymnasts') = Len(sessionGymnasts) + last'.n
          /\ Len(last'.results) = last'.n
          /\ \A i \in 1..last'.n :
                sessionGymnasts'[Len(sessionGymnasts) + i]
                    = [ sessionId |-> last'.sessionId,
                        gymnastId |-> last'.results[i].gymnastId ]]_vars

\* C12: an accepted roster submission never fails as a whole: it answers 200
\* with one outcome, matched or not, for every submitted entry.
C12_BatchNeverFails ==
    RosterAccepted(last) =>
        /\ last.status = 200
        /\ Len(last.results) = last.n
        /\ \A i \in 1..Len(last.results) : last.results[i].matched \in BOOLEAN

\* C13: an entry whose names several gymnast accounts carry is bound to the
\* one with the lowest id.
C13_LowestIdMatchWins ==
    (RosterAccepted(last) /\ last.status = 200) =>
        \A i \in 1..Len(last.results) :
            last.results[i].matched =>
                \A u \in Namesakes(last.results[i].firstName, last.results[i].lastName) :
                    last.results[i].gymnastId <= u.id

InRange(row) ==
    /\ row.difficultyScore # None =>
          (row.difficultyScore[1] >= 0 /\ row.difficultyScore[1] <= 10 * Pow10(DecimalScale))
    /\ row.executionScore # None =>
          (row.executionScore[1] >= 0 /\ row.executionScore[1] <= 10 * Pow10(DecimalScale))
    /\ row.deductions # None => row.deductions[1] >= 0

\* C16: no score with a difficulty or an execution outside [0, 10] or with
\* negative deductions is ever persisted, by a creation or by an edit.
C16_OutOfRangeNeverPersisted ==
    \A i \in 1..Len(scores) : InRange(scores[i])

\* clamp(v, lo, hi)
Clamp(v, lo, hi) == IF v < lo THEN lo ELSE IF v > hi THEN hi ELSE v

\* C17: every persisted score has final = clamp(difficulty + execution -
\* deductions, 0, difficulty + execution).
C17_FinalIsClampedSum ==
    \A i \in 1..Len(scores) :
        LET row == scores[i]
            sum == ParseOrZero(row.difficultyScore) + ParseOrZero(row.executionScore)
        IN  row.finalScore = Dec(Clamp(sum - ParseOrZero(row.deductions), 0, sum))

\* C18: a persisted score is never deleted and its values are never
\* overwritten.
C18_ScoresAreAppendOnly ==
    [][\A i \in 1..Len(scores) : i <= Len(scores') /\ scores'[i] = scores[i]]_vars

\* the most recently created score of a (session, participant, apparatus),
\* 0 when there is none
Authoritative(sessionId, gymnastId, apparatusId) ==
    LET rows == {i \in 1..Len(scores) : /\ scores[i].sessionId = sessionId
                                        /\ scores[i].gymnastId = gymnastId
                                        /\ scores[i].apparatusId = apparatusId}
    IN  IF rows = {} THEN 0 ELSE CHOOSE i \in rows : \A j \in rows : j <= i

\* C19: the score read back for a (session, participant, apparatus), by
\* getScore and by the gymnast list of the page, is the most recently created
\* score of that tuple.
C19_ReadBackIsMostRecent ==
    /\ last.op = "getScore" =>
          last.scoreId = Authoritative(last.sessionId, last.gymnastId, last.apparatusId)
    /\ last.op = "viewScores" =>
          \A i \in 1..Len(last.rows) :
              last.rows[i].scoreId
                  = Authoritative(last.sessionId, last.rows[i].gymnastId, last.apparatusId)

\* the final that ranks a participant: that of the authoritative score, 0
\* when there is none
RankingFinal(sessionId, gymnastId, apparatusId) ==
    LET a == Authoritative(sessionId, gymnastId, apparatusId)
    IN  IF a = 0 THEN 0 ELSE ParseOrZero(scores[a].finalScore)

\* participant a may stand before participant b in the ranking
RankedBefore(sessionId, apparatusId, a, b) ==
    LET fa == RankingFinal(sessionId, a, apparatusId)
        fb == RankingFinal(sessionId, b, apparatusId)
    IN  IF fa > 0 \/ fb > 0
        THEN \/ fa > fb
             \/ /\ fa = fb
                /\ Authoritative(sessionId, a, apparatusId)
                      <= Authoritative(sessionId, b, apparatusId)
        ELSE KeyLeq(<<Collate(gymnasts[a].lastName), Collate(gymnasts[a].firstName)>>,
                    <<Collate(gymnasts[b].lastName), Collate(gymnasts[b].firstName)>>)

\* C20: the gymnast list of a session and apparatus is in descending order of
\* the authoritative finals, equal positive finals by submission time, and
\* participants without a positive final last, by name.
C20_ListIsRanked ==
    last.op = "viewScores" =>
        \A i, j \in 1..Len(last.rows) :
            i < j => RankedBefore(last.sessionId, last.apparatusId,
                                  last.rows[i].gymnastId, last.rows[j].gymnastId)

\* the score entries of a participant with a positive final, on an apparatus
PositiveEntries(gymnastId, apparatusId) ==
    {i \in 1..Len(scores) : /\ scores[i].gymnastId = gymnastId
                            /\ scores[i].apparatusId = apparatusId
                            /\ ParseOrZero(scores[i].finalScore) > 0}

RECURSIVE SumFinals(_)
SumFinals(entries) ==
    IF entries = {} THEN 0
    ELSE LET i == CHOOSE x \in entries : TRUE
         IN  ParseOrZero(scores[i].finalScore) + SumFinals(entries \ {i})

\* C21: in the statistics of a participant the count of an apparatus is the
\* number of the participant's score entries on it with a positive final, and
\* average and best are taken over exactly those entries.
C21_ApparatusStatsOverPositiveEntries ==
    (last.op = "stats" /\ last.status = 200 /\ last.stats.history) =>
        \A e \in last.stats.apparatusStats :
            LET entries == PositiveEntries(last.id, e.apparatus)
            IN  /\ e.count = Cardinality(entries)
                /\ e.average = [sum |-> SumFinals(entries), by |-> Cardinality(entries)]
                /\ \A i \in entries : ParseOrZero(scores[i].finalScore) <= ParseOrZero(e.best)
                /\ \E i \in entries : scores[i].finalScore = e.best

\* the competitions in which a participant has an authoritative score entry
\* with a positive final
ScoredCompetitions(gymnastId) ==
    { eventSessions[scores[i].sessionId].eventId :
        i \in { j \in 1..Len(scores) :
                  /\ scores[j].gymnastId = gymnastId
                  /\ j = Authoritative(scores[j].sessionId, gymnastId, scores[j].apparatusId)
                  /\ ParseOrZero(scores[j].finalScore) > 0 } }

\* C22: totalCompetitions is the number of distinct competitions in which the
\* participant has an authoritative score entry with a positive final.
C22_TotalCompetitionsCountsScoredOnes ==
    (last.op = "stats" /\ last.status = 200 /\ last.stats.history) =>
        last.stats.totalCompetitions = Cardinality(ScoredCompetitions(last.id))

\* C23: the statistics are the no-history result exactly when the participant
\* has no score entry with a positive final.
C23_NoHistoryWithoutPositiveScore ==
    (last.op = "stats" /\ last.status = 200) =>
        (last.stats = NoStats <=>
            \A ap \in 1..SeededApparatus : PositiveEntries(last.id, ap) = {})

\* C29: statistics of a participant go only to an admin or to the account
\* the participant record is linked to.
C29_StatsOnlyForAdminOrLinkedAccount ==
    (last.op = "stats" /\ last.status = 200 /\ last.stats.history) =>
        \/ last.caller.role = "admin"
        \/ gymnasts[last.id].userId = last.caller.id

\* C24: the scores of a session are served only to a request with an
\* authenticated account.
C24_ScoresNeedAuthentication ==
    (last.op = "getScores" /\ last.status = 200) => last.caller # NoUser

\* C25: an admin's request with isApproved = false on an approved account
\* succeeds and leaves the account in the store, not approved.
C25_RevokeKeepsAccountUnapproved ==
    (/\ last.op = "approval"
     /\ ~ last.isApproved
     /\ last.found
     /\ last.userToUpdate.isApproved
     /\ last.caller # NoUser
     /\ last.caller.role = "admin") =>
        /\ last.status = 200
        /\ getUser(last.id) # NoUser
        /\ ~ getUser(last.id).isApproved

\* C26: an approve or reject request changes the accounts only when the
\* account that sends it is itself approved.
C26_ApproverIsApproved ==
    (last.op = "approval" /\ last.effect) => last.caller.isApproved

\* C27: registration never makes an admin: the only account with role admin is
\* the one that was an admin before any registration.
C27_RegistrationMakesNoAdmin ==
    \A u \in users : u.role = "admin" => u = AdminAccount

\* C28: every persisted score references a participant that is attached to
\* the score's session.
C28_ScoredParticipantIsAttached ==
    \A i \in 1..Len(scores) :
        \E a \in 1..Len(sessionGymnasts) :
            sessionGymnasts[a] = [ sessionId |-> scores[i].sessionId,
                                   gymnastId |-> scores[i].gymnastId ]

\* C30: a form that passes validation, submitted by a permitted scorer, is
\* persisted: its values fit the decimal columns.
C30_ValidScoreFitsColumns ==
    (last.op = "createScore" /\ last.status \notin {401, 403}) => last.status = 201
=============================================================================
